---- MODULE Spec2Model ----
(***************************************************************************)
(* Model of rke2-security-responder: run() (main.go) calls                 *)
(* telemetry.Collect and then telemetry.Send.  Collect issues its cluster  *)
(* API queries one at a time; Send is a bounded retry loop around an HTTP  *)
(* POST.  Every query and every loop step is one action.                   *)
(***************************************************************************)
EXTENDS Integers, Sequences, FiniteSets, TLC

VARIABLES
    env,          \* process environment and flags read by run()
    pc,           \* position of the single thread of control
    caller,       \* "run" when Collect/Send were entered from run(), "api" when called directly
    ctxCancelled, \* the caller-supplied context has been cancelled
    sendIn,       \* arguments of Send: is the payload serialisable, the endpoint
    attempt,      \* Send: loop variable attempt
    lastErr,      \* Send: local lastErr
    waits,        \* Send: the delays slept so far, in seconds
    posts,        \* Send: number of HTTP POSTs issued (client.Do calls)
    outcomes,     \* Send: what each POST received, in order
    sret,         \* Send: its return value (response, error), once returned
    runRet,       \* run: its return value, once returned
    cluster,      \* the objects the Cluster API serves
    mode,         \* operating mode: "recommended" or "minimal"
    mayFail,      \* the API calls the API server may answer with an error
    queries,      \* Collect: the API calls issued so far, in order
    failed,       \* Collect: the API calls that returned an error
    gpuLeft,      \* detectGPUOperator: namespaces the map iteration has not visited yet
    cdata,        \* Collect: the local data being filled in
    cret,         \* Collect: its return value (data, error), once returned
    credentials,  \* run: the in-cluster configuration has been acquired
    calls         \* run: how many times Collect and Send have been invoked

sendVars == <<sendIn, attempt, lastErr, waits, posts, outcomes, sret>>
collectVars == <<queries, failed, gpuLeft, cdata, cret>>
inputVars == <<cluster, mode, mayFail>>
runVars == <<env, runRet, credentials, calls>>
vars == <<env, pc, caller, ctxCancelled, sendIn, attempt, lastErr, waits, posts,
          outcomes, sret, runRet, cluster, mode, mayFail, queries, failed, gpuLeft,
          cdata, cret, credentials, calls>>

----------------------------------------------------------------------------
(* Constants of telemetry.go *)

DefaultEndpoint == "https://security-responder.rke2.io/v1/check"
maxRetries == 3
retryDelay == 2

----------------------------------------------------------------------------
(* Values *)

NoErr == [kind |-> "nil"]
NilResponse == [present |-> FALSE]
NotReturned == [returned |-> FALSE]

\* HTTP status codes a server may answer with: both edges of the 2xx range.
StatusCodes == {199, 200, 204, 299, 300, 404, 500}

\* Response bodies: text that is not JSON, an empty Response{}, a full Response.
Bodies ==
    { [json |-> FALSE, versions |-> <<>>, interval |-> 0],
      [json |-> TRUE,  versions |-> <<>>, interval |-> 0],
      [json |-> TRUE,  versions |-> <<[name |-> "v1.30.1", releaseDate |-> "2024-01-01"]>>,
       interval |-> 480] }

EmptyBody == [json |-> FALSE, versions |-> <<>>, interval |-> 0]

\* What client.Do can produce: a transport error, or a response.
HTTPOutcomes ==
    { [kind |-> "transport", code |-> 0, body |-> EmptyBody] }
    \cup { [kind |-> "response", code |-> c, body |-> EmptyBody] :
              c \in {c \in StatusCodes : c < 200 \/ c >= 300} }
    \cup { [kind |-> "response", code |-> c, body |-> b] :
              c \in {c \in StatusCodes : c >= 200 /\ c < 300}, b \in Bodies }

\* Destination addresses: the default, an override, an override url.Parse rejects.
BadEndpoint == "http://bad host/%zz"
Endpoints == {DefaultEndpoint, "http://mock-responder:8080/v1/check", BadEndpoint}

----------------------------------------------------------------------------
(* Send *)

\* http.NewRequestWithContext fails only when the URL does not parse.
RequestCreatable(endpoint) == endpoint # BadEndpoint

\* for attempt := 1; attempt <= maxRetries; attempt++
LoopContinuesOffByOne(a) == a < maxRetries
LoopContinues(a) == a <= maxRetries

\* delay := time.Duration(attempt-1) * retryDelay
DelayByAttempt(a) == a * retryDelay
Delay(a) == (a - 1) * retryDelay

\* resp.StatusCode < 200 || resp.StatusCode >= 300
IsFailureStatusNo2xx(code) == code <= 299
IsFailureStatusAll(code) == TRUE
IsFailureStatus(code) == code < 200 \/ code >= 300

\* lastErr = fmt.Errorf(...): every failed attempt overwrites lastErr.
RecordErrKeepFirst(old, new) == IF old = NoErr THEN new ELSE old
RecordErr(old, new) == new

\* The error of a failed attempt.
AttemptErr(o, a) ==
    IF o.kind = "transport"
    THEN [kind |-> "transport", attempt |-> a, code |-> 0]
    ELSE [kind |-> "status", attempt |-> a, code |-> o.code]

\* Decoding of a 2xx body into a Response: nil when the body does not decode.
parseResponse(body) ==
    IF body.json
    THEN [present |-> TRUE, versions |-> body.versions, interval |-> body.interval]
    ELSE NilResponse

\* Where control goes when Send returns.
SendReturnsTo == IF caller = "run" THEN "run_sent" ELSE "done"

SendReturn(resp, err) ==
    /\ sret' = [returned |-> TRUE, resp |-> resp, err |-> err]
    /\ pc' = SendReturnsTo

\* jsonData, err := json.Marshal(data); client := ...; var lastErr error; attempt := 1
SendMarshal ==
    /\ pc = "send_marshal"
    /\ IF sendIn.marshalOK
       THEN /\ attempt' = 1
            /\ lastErr' = NoErr
            /\ pc' = "send_loop"
            /\ sret' = sret
       ELSE /\ SendReturn(NilResponse, [kind |-> "marshal", attempt |-> 0, code |-> 0])
            /\ UNCHANGED <<attempt, lastErr>>
    /\ UNCHANGED <<env, caller, ctxCancelled, sendIn, waits, posts, outcomes, runRet>>
    /\ UNCHANGED <<inputVars, collectVars, credentials, calls>>

\* Loop head: attempt <= maxRetries, else return lastErr.
SendLoop ==
    /\ pc = "send_loop"
    /\ IF LoopContinues(attempt)
       THEN /\ pc' = IF attempt > 1 THEN "send_sleep" ELSE "send_request"
            /\ sret' = sret
       ELSE SendReturn(NilResponse, lastErr)
    /\ UNCHANGED <<env, caller, ctxCancelled, sendIn, attempt, lastErr, waits, posts,
                   outcomes, runRet>>
    /\ UNCHANGED <<inputVars, collectVars, credentials, calls>>

\* time.Sleep(delay): runs to completion whatever the state of ctx.
SendSleep ==
    /\ pc = "send_sleep"
    /\ waits' = Append(waits, Delay(attempt))
    /\ pc' = "send_request"
    /\ UNCHANGED <<env, caller, ctxCancelled, sendIn, attempt, lastErr, posts, outcomes,
                   sret, runRet>>
    /\ UNCHANGED <<inputVars, collectVars, credentials, calls>>

\* http.NewRequestWithContext, client.Do, the status check and the return.
SendRequestReturnsLastErr ==
    /\ pc = "send_request"
    /\ IF ~RequestCreatable(sendIn.endpoint)
       THEN /\ SendReturn(NilResponse, [kind |-> "request", attempt |-> attempt, code |-> 0])
            /\ UNCHANGED <<attempt, lastErr, posts, outcomes>>
       ELSE \E o \in HTTPOutcomes :
            /\ ctxCancelled => o.kind = "transport"
            /\ posts' = posts + 1
            /\ outcomes' = Append(outcomes, o)
            /\ IF o.kind = "transport" \/ IsFailureStatus(o.code)
               THEN /\ lastErr' = RecordErr(lastErr, AttemptErr(o, attempt))
                    /\ attempt' = attempt + 1
                    /\ pc' = "send_loop"
                    /\ sret' = sret
               ELSE /\ SendReturn(parseResponse(o.body), lastErr)
                    /\ UNCHANGED <<attempt, lastErr>>
    /\ UNCHANGED <<env, caller, ctxCancelled, sendIn, waits, runRet>>
    /\ UNCHANGED <<inputVars, collectVars, credentials, calls>>

SendRequest ==
    /\ pc = "send_request"
    /\ IF ~RequestCreatable(sendIn.endpoint)
       THEN /\ SendReturn(NilResponse, [kind |-> "request", attempt |-> attempt, code |-> 0])
            /\ UNCHANGED <<attempt, lastErr, posts, outcomes>>
       ELSE \E o \in HTTPOutcomes :
            \* a cancelled context makes client.Do return an error
            /\ ctxCancelled => o.kind = "transport"
            /\ posts' = posts + 1
            /\ outcomes' = Append(outcomes, o)
            /\ IF o.kind = "transport" \/ IsFailureStatus(o.code)
               THEN /\ lastErr' = RecordErr(lastErr, AttemptErr(o, attempt))
                    /\ attempt' = attempt + 1
                    /\ pc' = "send_loop"
                    /\ sret' = sret
               ELSE /\ SendReturn(parseResponse(o.body), NoErr)
                    /\ UNCHANGED <<attempt, lastErr>>
    /\ UNCHANGED <<env, caller, ctxCancelled, sendIn, waits, runRet>>
    /\ UNCHANGED <<inputVars, collectVars, credentials, calls>>

\* The caller cancels the context while Send is running.
CtxCancel ==
    /\ pc \in {"send_marshal", "send_loop", "send_sleep", "send_request"}
    /\ ~ctxCancelled
    /\ ctxCancelled' = TRUE
    /\ UNCHANGED <<env, pc, caller, sendIn, attempt, lastErr, waits, posts, outcomes,
                   sret, runRet>>
    /\ UNCHANGED <<inputVars, collectVars, credentials, calls>>

SendSteps == SendMarshal \/ SendLoop \/ SendSleep \/ SendRequest

SendNext == SendSteps \/ CtxCancel


----------------------------------------------------------------------------
(* Strings (package strings) *)

Char(s, i) == SubSeq(s, i, i)

LowerChar(c) ==
    CASE c = "A" -> "a" [] c = "B" -> "b" [] c = "C" -> "c" [] c = "D" -> "d"
      [] c = "E" -> "e" [] c = "F" -> "f" [] c = "G" -> "g" [] c = "H" -> "h"
      [] c = "I" -> "i" [] c = "J" -> "j" [] c = "K" -> "k" [] c = "L" -> "l"
      [] c = "M" -> "m" [] c = "N" -> "n" [] c = "O" -> "o" [] c = "P" -> "p"
      [] c = "Q" -> "q" [] c = "R" -> "r" [] c = "S" -> "s" [] c = "T" -> "t"
      [] c = "U" -> "u" [] c = "V" -> "v" [] c = "W" -> "w" [] c = "X" -> "x"
      [] c = "Y" -> "y" [] c = "Z" -> "z" [] OTHER -> c

RECURSIVE ToLower(_)
ToLower(s) ==
    IF s = "" THEN "" ELSE LowerChar(Char(s, 1)) \o ToLower(SubSeq(s, 2, Len(s)))

\* strings.Contains
Contains(s, p) ==
    \E i \in 1..(Len(s) - Len(p) + 1) : SubSeq(s, i, i + Len(p) - 1) = p

\* strings.Index and strings.LastIndex for a one-character separator,
\* 1-based, 0 when the separator does not occur.
Index(s, c) ==
    IF \E i \in 1..Len(s) : Char(s, i) = c
    THEN CHOOSE i \in 1..Len(s) : Char(s, i) = c /\ \A j \in 1..(i - 1) : Char(s, j) # c
    ELSE 0

LastIndex(s, c) ==
    IF \E i \in 1..Len(s) : Char(s, i) = c
    THEN CHOOSE i \in 1..Len(s) : Char(s, i) = c /\ \A j \in (i + 1)..Len(s) : Char(s, j) # c
    ELSE 0

----------------------------------------------------------------------------
(* Maps (ExtraTagInfo, ExtraFieldInfo) *)

EmptyMap == [k \in {} |-> 0]
Put(m, k, v) == (k :> v) @@ m
Has(m, k) == k \in DOMAIN m

NilData == [present |-> FALSE]

----------------------------------------------------------------------------
(* Helpers of Collect *)

LabelControlPlane == "node-role.kubernetes.io/control-plane"
LabelMaster == "node-role.kubernetes.io/master"
LabelSELinux == "security.alpha.kubernetes.io/selinux"

isControlPlaneNodeOnlyNewLabel(node) == Has(node.labels, LabelControlPlane)
isControlPlaneNode(node) ==
    LET hasControlPlaneLabel == Has(node.labels, LabelControlPlane)
        hasMasterLabel == Has(node.labels, LabelMaster)
    IN  hasControlPlaneLabel \/ hasMasterLabel

getSELinuxStatusEmptyIsUnknown(node) ==
    IF Has(node.labels, LabelSELinux) /\ node.labels[LabelSELinux] # ""
    THEN IF node.labels[LabelSELinux] = "enabled" THEN "enabled" ELSE "disabled"
    ELSE "unknown"
getSELinuxStatus(node) ==
    IF Has(node.labels, LabelSELinux)
    THEN IF node.labels[LabelSELinux] = "enabled" THEN "enabled" ELSE "disabled"
    ELSE "unknown"

extractImageVersionFirstColon(image) ==
    LET idx == Index(image, ":") IN
    IF idx # 0
    THEN LET tag == SubSeq(image, idx + 1, Len(image))
             atIdx == Index(tag, "@")
         IN  IF atIdx # 0 THEN SubSeq(tag, 1, atIdx - 1) ELSE tag
    ELSE ""
extractImageVersion(image) ==
    LET idx == LastIndex(image, ":") IN
    IF idx # 0
    THEN LET tag == SubSeq(image, idx + 1, Len(image))
             atIdx == Index(tag, "@")
         IN  IF atIdx # 0 THEN SubSeq(tag, 1, atIdx - 1) ELSE tag
    ELSE ""

\* version of a workload: the image tag of its first container, if it has one
FirstContainerVersion(w) ==
    IF Len(w.containers) > 0 THEN extractImageVersion(w.containers[1].image) ELSE ""

gpuResources == <<"nvidia.com/gpu", "amd.com/gpu", "intel.com/gpu">>

gpuVendorMap(res) ==
    CASE res = "nvidia.com/gpu" -> "nvidia"
      [] res = "amd.com/gpu" -> "amd"
      [] res = "intel.com/gpu" -> "intel"

\* for _, res := range gpuResources: the first resource with a positive quantity
\* (0 when the node has none)
FirstGPUResourceAnyQuantity(node) ==
    LET hit(i) == Has(node.allocatable, gpuResources[i])
    IN  IF \E i \in 1..Len(gpuResources) : hit(i)
        THEN CHOOSE i \in 1..Len(gpuResources) : hit(i) /\ \A j \in 1..(i - 1) : ~hit(j)
        ELSE 0
FirstGPUResource(node) ==
    LET hit(i) == Has(node.allocatable, gpuResources[i])
                  /\ node.allocatable[gpuResources[i]] > 0
    IN  IF \E i \in 1..Len(gpuResources) : hit(i)
        THEN CHOOSE i \in 1..Len(gpuResources) : hit(i) /\ \A j \in 1..(i - 1) : ~hit(j)
        ELSE 0

NodeAccInit ==
    [serverNodeCount |-> 0, agentNodeCount |-> 0, gpuNodeCount |-> 0,
     osImage |-> "", kernelVersion |-> "", arch |-> "", selinuxInfo |-> "",
     gpuVendor |-> ""]

\* One iteration of: for _, node := range nodes.Items
NodeStep(acc, node) ==
    LET cp == isControlPlaneNode(node)
        g == FirstGPUResource(node)
    IN  [serverNodeCount |-> IF cp THEN acc.serverNodeCount + 1 ELSE acc.serverNodeCount,
         agentNodeCount |-> IF cp THEN acc.agentNodeCount ELSE acc.agentNodeCount + 1,
         osImage |-> IF acc.osImage = "" THEN node.osImage ELSE acc.osImage,
         kernelVersion |-> IF acc.osImage = "" THEN node.kernelVersion ELSE acc.kernelVersion,
         arch |-> IF acc.osImage = "" THEN node.architecture ELSE acc.arch,
         selinuxInfo |-> IF acc.selinuxInfo = "" THEN getSELinuxStatus(node)
                         ELSE acc.selinuxInfo,
         gpuNodeCount |-> IF g # 0 THEN acc.gpuNodeCount + 1 ELSE acc.gpuNodeCount,
         gpuVendor |-> IF g # 0 /\ acc.gpuVendor = "" THEN gpuVendorMap(gpuResources[g])
                       ELSE acc.gpuVendor]

RECURSIVE NodeLoop(_, _)
NodeLoop(acc, items) ==
    IF items = <<>> THEN acc ELSE NodeLoop(NodeStep(acc, Head(items)), Tail(items))

\* The allocatable quantity of a resource on a node: 0 when not reported.
Allocatable(node, res) == IF Has(node.allocatable, res) THEN node.allocatable[res] ELSE 0

\* The allocatable CPU or memory summed over the server nodes (server = TRUE)
\* or over the agent nodes (server = FALSE).
RECURSIVE ResourceSum(_, _, _)
ResourceSum(items, server, res) ==
    IF items = <<>> THEN 0
    ELSE (IF isControlPlaneNode(Head(items)) = server
          THEN Allocatable(Head(items), res) ELSE 0)
         + ResourceSum(Tail(items), server, res)

\* Minimal mode replaces a node-derived count by the sentinel -1.
ModeCountKeepsCount(m, n) == n
ModeCount(m, n) == IF m = "minimal" THEN -1 ELSE n

\* cniPatterns: pattern -> plugin name (the two are equal for every entry)
cniPatterns == {"canal", "flannel", "calico", "cilium", "weave"}

\* A range loop that stops at the first item that matches: the least of the
\* matching indices, 0 when there is none.
FirstIndex(hits) ==
    IF hits = {} THEN 0 ELSE CHOOSE i \in hits : \A j \in hits : i <= j

\* The indices of the items of list whose lower-cased name satisfies the test.
CNIHits(list) == {i \in 1..Len(list) : \E p \in cniPatterns : Contains(ToLower(list[i].name), p)}

\* detectCNIPlugin after a successful listing: the possible (plugin, version)
\* results.  The inner loop ranges over a Go map, whose iteration order is not
\* fixed: for the first daemon-set that matches at all, any matching pattern
\* may be the one met first.
detectCNIPlugin(daemonSets) ==
    LET i == FirstIndex(CNIHits(daemonSets)) IN
    IF i = 0
    THEN {[name |-> "unknown", version |-> ""]}
    ELSE {[name |-> p, version |-> FirstContainerVersion(daemonSets[i])] :
             p \in {q \in cniPatterns : Contains(ToLower(daemonSets[i].name), q)}}

\* The switch of detectIngressController on one lower-cased name.
ingressName(name) ==
    IF Contains(name, "nginx-ingress") \/ Contains(name, "rke2-ingress-nginx")
    THEN "rke2-ingress-nginx"
    ELSE IF Contains(name, "traefik") THEN "traefik" ELSE ""

IngressHits(list) == {i \in 1..Len(list) : ingressName(ToLower(list[i].name)) # ""}

\* One of the two scans of detectIngressController; name "" when nothing matches.
ScanIngressLastMatch(list) ==
    IF IngressHits(list) = {}
    THEN [name |-> "", version |-> ""]
    ELSE LET i == CHOOSE k \in IngressHits(list) : \A j \in IngressHits(list) : j <= k
         IN  [name |-> ingressName(ToLower(list[i].name)),
              version |-> FirstContainerVersion(list[i])]
ScanIngress(list) ==
    LET i == FirstIndex(IngressHits(list)) IN
    IF i = 0
    THEN [name |-> "", version |-> ""]
    ELSE [name |-> ingressName(ToLower(list[i].name)),
          version |-> FirstContainerVersion(list[i])]

gpuNamespaces == {"gpu-operator", "kube-amd-gpu", "inteldeviceplugins-system"}

gpuOperatorOf(ns) ==
    CASE ns = "gpu-operator" -> "nvidia-gpu-operator"
      [] ns = "kube-amd-gpu" -> "amd-gpu-operator"
      [] ns = "inteldeviceplugins-system" -> "intel-device-plugins"

MatchesGPU(ds) ==
    Contains(ToLower(ds.name), "device-plugin") \/ Contains(ToLower(ds.name), "driver")

GPUHits(list) == {i \in 1..Len(list) : MatchesGPU(list[i])}

\* detectRancherManager once the agent deployment has been fetched.
RancherDetailsNoInstallUUID(deploy) ==
    IF Len(deploy.containers) > 0
    THEN [version |-> extractImageVersion(deploy.containers[1].image), installUUID |-> ""]
    ELSE [version |-> "", installUUID |-> ""]
RancherDetails(deploy) ==
    IF Len(deploy.containers) > 0
    THEN LET container == deploy.containers[1]
             isUUID(e) == e.name = "CATTLE_INSTALL_UUID" /\ e.value # ""
             i == FirstIndex({k \in 1..Len(container.env) : isUUID(container.env[k])})
         IN  [version |-> extractImageVersion(container.image),
              installUUID |-> IF i # 0 THEN container.env[i].value ELSE ""]
    ELSE [version |-> "", installUUID |-> ""]

\* Classification of the address families of the default/kubernetes service.
detectIPStackFirstFamilyOnly(families) ==
    IF Len(families) >= 1
    THEN IF families[1] = "IPv4" THEN "ipv4-only" ELSE "ipv6-only"
    ELSE "unknown"
detectIPStack(families) ==
    IF Len(families) = 1
    THEN IF families[1] = "IPv4" THEN "ipv4-only"
         ELSE IF families[1] = "IPv6" THEN "ipv6-only" ELSE "unknown"
    ELSE IF Len(families) = 2
            /\ {families[1], families[2]} = {"IPv4", "IPv6"}
         THEN "dual-stack"
         ELSE "unknown"

----------------------------------------------------------------------------
(* Collect *)

Calls ==
    {"ServerVersion", "Namespace/kube-system", "Nodes", "CNI/DaemonSets",
     "Ingress/Deployments", "Ingress/DaemonSets", "GPU/gpu-operator",
     "GPU/kube-amd-gpu", "GPU/inteldeviceplugins-system", "Rancher/Namespace",
     "Rancher/Deployment", "IPStack/Service"}

EmptyData == [appVersion |-> "", tags |-> EmptyMap, fields |-> EmptyMap]

\* One API call: apiOK is the API server's answer (an error only where the
\* environment allows one), ok is whether the call returned without error.
Query(call, apiOK, ok) ==
    /\ ~apiOK => call \in mayFail
    /\ queries' = Append(queries, call)
    /\ failed' = IF ok THEN failed ELSE failed \cup {call}

CollectReturnsTo == IF caller = "run" THEN "run_collected" ELSE "done"

CollectReturn(data, err) ==
    /\ cret' = [returned |-> TRUE, data |-> data, err |-> err]
    /\ pc' = CollectReturnsTo

CollectErr(step) == [kind |-> "collect", step |-> step]

SetFields(f) == cdata' = [cdata EXCEPT !.fields = f]

\* if version != "" { fields[key] = version }
PutIfSetUnconditional(m, k, v) == Put(m, k, v)
PutIfSet(m, k, v) == IF v # "" THEN Put(m, k, v) ELSE m

CollectFrame == UNCHANGED <<env, caller, ctxCancelled, sendVars, runRet, inputVars,
                            credentials, calls>>

\* versionInfo, err := clientset.Discovery().ServerVersion()
CollectServerVersionNoTag ==
    /\ pc = "collect_version"
    /\ \E apiOK \in BOOLEAN :
        /\ Query("ServerVersion", apiOK, apiOK)
        /\ IF apiOK
           THEN /\ cdata' = [cdata EXCEPT !.appVersion = cluster.version]
                /\ pc' = "collect_namespace"
                /\ cret' = cret
           ELSE /\ CollectReturn(NilData, CollectErr("ServerVersion"))
                /\ cdata' = cdata
    /\ gpuLeft' = gpuLeft
    /\ CollectFrame

CollectServerVersion ==
    /\ pc = "collect_version"
    /\ \E apiOK \in BOOLEAN :
        /\ Query("ServerVersion", apiOK, apiOK)
        /\ IF apiOK
           THEN /\ cdata' = [cdata EXCEPT !.appVersion = cluster.version,
                                          !.tags = Put(@, "kubernetesVersion", cluster.version)]
                /\ pc' = "collect_namespace"
                /\ cret' = cret
           ELSE /\ CollectReturn(NilData, CollectErr("ServerVersion"))
                /\ cdata' = cdata
    /\ gpuLeft' = gpuLeft
    /\ CollectFrame

\* namespace, err := clientset.CoreV1().Namespaces().Get(ctx, "kube-system", ...)
CollectNamespaceKeepsGoing ==
    /\ pc = "collect_namespace"
    /\ \E apiOK \in BOOLEAN :
        LET ok == apiOK /\ cluster.kubeSystem.exists IN
        /\ Query("Namespace/kube-system", apiOK, ok)
        /\ cdata' = [cdata EXCEPT !.tags = Put(@, "clusteruuid",
                                     IF ok THEN cluster.kubeSystem.uid ELSE "")]
        /\ pc' = "collect_nodes"
        /\ cret' = cret
    /\ gpuLeft' = gpuLeft
    /\ CollectFrame

CollectNamespace ==
    /\ pc = "collect_namespace"
    /\ \E apiOK \in BOOLEAN :
        LET ok == apiOK /\ cluster.kubeSystem.exists IN
        /\ Query("Namespace/kube-system", apiOK, ok)
        /\ IF ok
           THEN /\ cdata' = [cdata EXCEPT !.tags = Put(@, "clusteruuid", cluster.kubeSystem.uid)]
                /\ pc' = "collect_nodes"
                /\ cret' = cret
           ELSE /\ CollectReturn(NilData, CollectErr("Namespace/kube-system"))
                /\ cdata' = cdata
    /\ gpuLeft' = gpuLeft
    /\ CollectFrame

\* nodes, err := clientset.CoreV1().Nodes().List(...), the loop over nodes.Items
\* and the node fields.
CollectNodes ==
    /\ pc = "collect_nodes"
    /\ \E apiOK \in BOOLEAN :
        /\ Query("Nodes", apiOK, apiOK)
        /\ IF apiOK
           THEN LET acc == NodeLoop(NodeAccInit, cluster.nodes)
                    f1 == Put(cdata.fields, "serverNodeCount", ModeCount(mode, acc.serverNodeCount))
                    f2 == Put(f1, "agentNodeCount", ModeCount(mode, acc.agentNodeCount))
                    f3 == Put(f2, "os", acc.osImage)
                    f4 == Put(f3, "kernel", acc.kernelVersion)
                    f5 == Put(f4, "arch", acc.arch)
                    f6 == Put(f5, "selinux", acc.selinuxInfo)
                    f7 == Put(f6, "gpu-nodes", ModeCount(mode, acc.gpuNodeCount))
                    f8 == PutIfSet(f7, "gpu-vendor", acc.gpuVendor)
                    sum(server, res) == ModeCount(mode, ResourceSum(cluster.nodes, server, res))
                    f9 == Put(Put(f8, "serverCPU", sum(TRUE, "cpu")),
                              "agentCPU", sum(FALSE, "cpu"))
                    f10 == Put(Put(f9, "serverMemory", sum(TRUE, "memory")),
                               "agentMemory", sum(FALSE, "memory"))
                IN  /\ SetFields(f10)
                    /\ pc' = "collect_cni"
                    /\ cret' = cret
           ELSE /\ CollectReturn(NilData, CollectErr("Nodes"))
                /\ cdata' = cdata
    /\ gpuLeft' = gpuLeft
    /\ CollectFrame

\* cniPlugin, cniVersion, err := detectCNIPlugin(ctx, clientset)
CollectCNIAborts ==
    /\ pc = "collect_cni"
    /\ \E apiOK \in BOOLEAN, r \in detectCNIPlugin(cluster.ksDaemonSets) :
        /\ Query("CNI/DaemonSets", apiOK, apiOK)
        /\ IF apiOK
           THEN /\ SetFields(PutIfSet(Put(cdata.fields, "cni-plugin", r.name),
                                      "cni-version", r.version))
                /\ pc' = "collect_ingress"
                /\ cret' = cret
           ELSE /\ CollectReturn(NilData, CollectErr("CNI/DaemonSets"))
                /\ cdata' = cdata
    /\ gpuLeft' = gpuLeft
    /\ CollectFrame

CollectCNI ==
    /\ pc = "collect_cni"
    /\ \E apiOK \in BOOLEAN, r \in detectCNIPlugin(cluster.ksDaemonSets) :
        LET cni == IF apiOK THEN r ELSE [name |-> "unknown", version |-> ""] IN
        /\ Query("CNI/DaemonSets", apiOK, apiOK)
        /\ SetFields(PutIfSet(Put(cdata.fields, "cni-plugin", cni.name),
                              "cni-version", cni.version))
    /\ pc' = "collect_ingress"
    /\ UNCHANGED <<cret, gpuLeft>>
    /\ CollectFrame

RecordIngress(name, version) ==
    SetFields(PutIfSet(Put(cdata.fields, "ingress-controller", name),
                       "ingress-version", version))

\* detectIngressController: the listing and the scan of the deployments
CollectIngressDeployments ==
    /\ pc = "collect_ingress"
    /\ \E apiOK \in BOOLEAN :
        LET scan == ScanIngress(cluster.ksDeployments) IN
        /\ Query("Ingress/Deployments", apiOK, apiOK)
        /\ IF ~apiOK
           THEN RecordIngress("unknown", "") /\ pc' = "collect_gpu"
           ELSE IF scan.name # ""
                THEN RecordIngress(scan.name, scan.version) /\ pc' = "collect_gpu"
                ELSE cdata' = cdata /\ pc' = "collect_ingress_ds"
    /\ UNCHANGED <<cret, gpuLeft>>
    /\ CollectFrame

\* detectIngressController: the listing and the scan of the daemon-sets
CollectIngressDaemonSetsReportsFailure ==
    /\ pc = "collect_ingress_ds"
    /\ \E apiOK \in BOOLEAN :
        LET scan == ScanIngress(cluster.ksDaemonSets) IN
        /\ Query("Ingress/DaemonSets", apiOK, apiOK)
        /\ IF ~apiOK
           THEN RecordIngress("unknown", "")
           ELSE IF scan.name # ""
                THEN RecordIngress(scan.name, scan.version)
                ELSE RecordIngress("none", "")
    /\ pc' = "collect_gpu"
    /\ UNCHANGED <<cret, gpuLeft>>
    /\ CollectFrame

CollectIngressDaemonSets ==
    /\ pc = "collect_ingress_ds"
    /\ \E apiOK \in BOOLEAN :
        LET scan == ScanIngress(cluster.ksDaemonSets) IN
        /\ Query("Ingress/DaemonSets", apiOK, apiOK)
        /\ IF apiOK /\ scan.name # ""
           THEN RecordIngress(scan.name, scan.version)
           ELSE RecordIngress("none", "")
    /\ pc' = "collect_gpu"
    /\ UNCHANGED <<cret, gpuLeft>>
    /\ CollectFrame

\* detectGPUOperator: one iteration of the loop over the gpuNamespaces map (a Go
\* map: the next namespace is any one not visited yet), and, when the loop ends,
\* the gpu-operator fields.
CollectGPUOperator ==
    /\ pc = "collect_gpu"
    /\ \E ns \in gpuLeft, apiOK \in BOOLEAN :
        LET list == cluster.gpuDaemonSets[ns]
            i == FirstIndex(GPUHits(list))
        IN
        /\ Query("GPU/" \o ns, apiOK, apiOK)
        /\ IF apiOK /\ i # 0
           THEN /\ SetFields(PutIfSet(Put(cdata.fields, "gpu-operator", gpuOperatorOf(ns)),
                                      "gpu-operator-version", FirstContainerVersion(list[i])))
                /\ gpuLeft' = gpuLeft \ {ns}
                /\ pc' = "collect_rancher"
           ELSE /\ cdata' = cdata
                /\ gpuLeft' = gpuLeft \ {ns}
                /\ pc' = IF gpuLeft \ {ns} = {} THEN "collect_rancher" ELSE "collect_gpu"
    /\ cret' = cret
    /\ CollectFrame

\* Minimal mode: the management-layer version and install identifier are
\* recorded as empty strings.
MinimalRancherFields(f) == Put(Put(f, "rancher-version", ""), "rancher-install-uuid", "")

\* data.ExtraFieldInfo["rancher-managed"] = ...; version and install identifier
\* only when non-empty.
RancherFields(f, managed, version, installUUID) ==
    LET f1 == Put(f, "rancher-managed", managed) IN
    IF mode = "minimal"
    THEN MinimalRancherFields(f1)
    ELSE PutIfSet(PutIfSet(f1, "rancher-version", version),
                  "rancher-install-uuid", installUUID)

\* detectRancherManager: Namespaces().Get(ctx, "cattle-system", ...)
CollectRancherNamespaceAborts ==
    /\ pc = "collect_rancher"
    /\ \E apiOK \in BOOLEAN :
        LET ok == apiOK /\ cluster.cattle.namespace IN
        /\ Query("Rancher/Namespace", apiOK, ok)
        /\ IF ok
           THEN cdata' = cdata /\ pc' = "collect_rancher_agent" /\ cret' = cret
           ELSE CollectReturn(NilData, CollectErr("Rancher/Namespace")) /\ cdata' = cdata
    /\ gpuLeft' = gpuLeft
    /\ CollectFrame

CollectRancherNamespace ==
    /\ pc = "collect_rancher"
    /\ \E apiOK \in BOOLEAN :
        LET ok == apiOK /\ cluster.cattle.namespace IN
        /\ Query("Rancher/Namespace", apiOK, ok)
        /\ IF ok
           THEN cdata' = cdata /\ pc' = "collect_rancher_agent"
           ELSE SetFields(RancherFields(cdata.fields, FALSE, "", "")) /\ pc' = "collect_ipstack"
    /\ UNCHANGED <<cret, gpuLeft>>
    /\ CollectFrame

\* detectRancherManager: Deployments("cattle-system").Get(ctx, "cattle-cluster-agent", ...)
CollectRancherDeployment ==
    /\ pc = "collect_rancher_agent"
    /\ \E apiOK \in BOOLEAN :
        LET ok == apiOK /\ cluster.cattle.agent.exists
            d == IF ok THEN RancherDetails(cluster.cattle.agent)
                 ELSE [version |-> "", installUUID |-> ""]
        IN
        /\ Query("Rancher/Deployment", apiOK, ok)
        /\ SetFields(RancherFields(cdata.fields, TRUE, d.version, d.installUUID))
    /\ pc' = "collect_ipstack"
    /\ UNCHANGED <<cret, gpuLeft>>
    /\ CollectFrame

\* The IP-stack detection from the default/kubernetes service, the mode marker,
\* and return data, nil.
CollectIPStack ==
    /\ pc = "collect_ipstack"
    /\ \E apiOK \in BOOLEAN :
        LET ok == apiOK /\ cluster.service.exists
            stack == IF ok THEN detectIPStack(cluster.service.ipFamilies) ELSE "unknown"
            f == Put(Put(cdata.fields, "ip-stack", stack), "mode", mode)
        IN
        /\ Query("IPStack/Service", apiOK, ok)
        /\ SetFields(f)
        /\ CollectReturn([present |-> TRUE, appVersion |-> cdata.appVersion,
                          tags |-> cdata.tags, fields |-> f], NoErr)
    /\ gpuLeft' = gpuLeft
    /\ CollectFrame

CollectNext ==
    \/ CollectServerVersion
    \/ CollectNamespace
    \/ CollectNodes
    \/ CollectCNI
    \/ CollectIngressDeployments
    \/ CollectIngressDaemonSets
    \/ CollectGPUOperator
    \/ CollectRancherNamespace
    \/ CollectRancherDeployment
    \/ CollectIPStack

----------------------------------------------------------------------------
(* run *)

IsDigit(c) == c \in {"0", "1", "2", "3", "4", "5", "6", "7", "8", "9"}
IsHexLower(c) == IsDigit(c) \/ c \in {"a", "b", "c", "d", "e", "f"}
IsLetter(c) == c # LowerChar(c) \/ c \in {LowerChar(u) : u \in
    {"A", "B", "C", "D", "E", "F", "G", "H", "I", "J", "K", "L", "M",
     "N", "O", "P", "Q", "R", "S", "T", "U", "V", "W", "X", "Y", "Z"}}
IsAlnum(c) == IsLetter(c) \/ IsDigit(c)

\* The position after the run of digits that starts at position i.
RECURSIVE SkipDigits(_, _)
SkipDigits(s, i) ==
    IF i <= Len(s) /\ IsDigit(Char(s, i)) THEN SkipDigits(s, i + 1) ELSE i

\* releaseVersionRe: ^v\d+\.\d+\.\d+([+-][a-zA-Z][a-zA-Z0-9]*)?$
releaseVersionRe(s) ==
    LET a == SkipDigits(s, 2)
        b == SkipDigits(s, a + 1)
        c == SkipDigits(s, b + 1)
    IN  /\ Len(s) >= 1 /\ Char(s, 1) = "v"
        /\ a > 2 /\ a <= Len(s) /\ Char(s, a) = "."
        /\ b > a + 1 /\ b <= Len(s) /\ Char(s, b) = "."
        /\ c > b + 1
        /\ \/ c = Len(s) + 1
           \/ /\ c + 1 <= Len(s)
              /\ Char(s, c) \in {"+", "-"}
              /\ IsLetter(Char(s, c + 1))
              /\ \A j \in (c + 2)..Len(s) : IsAlnum(Char(s, j))

\* regexp.MatchString(`-\d+-g[a-f0-9]+`, v)
commitsAfterTagRe(s) ==
    \E i \in 1..Len(s) :
        LET k == SkipDigits(s, i + 1) IN
        /\ Char(s, i) = "-"
        /\ k > i + 1
        /\ k + 2 <= Len(s)
        /\ Char(s, k) = "-"
        /\ Char(s, k + 1) = "g"
        /\ IsHexLower(Char(s, k + 2))

isReleaseVersionRegexpOnly(version) == releaseVersionRe(ToLower(version))
isReleaseVersion(version) ==
    LET v == ToLower(version) IN
    IF Contains(v, "dirty") \/ Contains(v, "dev") \/ Contains(v, "test")
    THEN FALSE
    ELSE IF commitsAfterTagRe(v) THEN FALSE ELSE releaseVersionRe(v)

\* os.Getenv("DISABLE_SECURITY_RESPONDER_CHECK") == "true"
isDisabledWhenSet(e) == e.disable # ""
isDisabledNever(e) == FALSE
isDisabled(e) == e.disable = "true"

\* endpoint := os.Getenv("SECURITY_RESPONDER_ENDPOINT"), DefaultEndpoint when empty
endpointOf(e) == IF e.endpoint = "" THEN DefaultEndpoint ELSE e.endpoint

\* What run returns after Send: a Send error is logged and dropped.
runResultAfterSendPropagates(err) == err
runResultAfterSend(err) == NoErr

RunReturn(err) ==
    /\ runRet' = [returned |-> TRUE, err |-> err]
    /\ pc' = "done"

RunFrame == UNCHANGED <<env, caller, ctxCancelled, inputVars, queries, failed, gpuLeft,
                        cdata, attempt, lastErr, waits, posts, outcomes, sret>>

\* run: the disable switch
RunStart ==
    /\ pc = "run_start"
    /\ IF isDisabled(env)
       THEN RunReturn(NoErr)
       ELSE pc' = "run_config" /\ runRet' = runRet
    /\ UNCHANGED <<credentials, calls, cret, sendIn>>
    /\ RunFrame

\* config, err := rest.InClusterConfig()
RunConfig ==
    /\ pc = "run_config"
    /\ IF env.inCluster
       THEN credentials' = TRUE /\ pc' = "run_client" /\ runRet' = runRet
       ELSE RunReturn([kind |-> "in-cluster config"]) /\ credentials' = credentials
    /\ UNCHANGED <<calls, cret, sendIn>>
    /\ RunFrame

\* clientset, err := kubernetes.NewForConfig(config); telemetry.Collect(ctx, clientset)
RunClient ==
    /\ pc = "run_client"
    /\ \E ok \in BOOLEAN :
        IF ok
        THEN /\ pc' = "collect_version"
             /\ calls' = [calls EXCEPT !.collect = @ + 1]
             /\ runRet' = runRet
        ELSE RunReturn([kind |-> "kubernetes client"]) /\ calls' = calls
    /\ UNCHANGED <<credentials, cret, sendIn>>
    /\ RunFrame

\* run from the return of Collect to the call of Send
RunCollectedIgnoresDebug ==
    /\ pc = "run_collected"
    /\ IF cret.err # NoErr
       THEN /\ RunReturn([kind |-> "collect data"])
            /\ UNCHANGED <<cret, sendIn, calls>>
       ELSE /\ cret' = IF ~isReleaseVersion(env.version) \/ env.dev = "true"
                       THEN [cret EXCEPT !.data.fields = Put(@, "dev", TRUE)]
                       ELSE cret
            /\ sendIn' = [marshalOK |-> TRUE, endpoint |-> endpointOf(env)]
            /\ calls' = [calls EXCEPT !.send = @ + 1]
            /\ pc' = "send_marshal"
            /\ runRet' = runRet
    /\ credentials' = credentials
    /\ RunFrame

RunCollected ==
    /\ pc = "run_collected"
    /\ IF cret.err # NoErr
       THEN /\ RunReturn([kind |-> "collect data"])
            /\ UNCHANGED <<cret, sendIn, calls>>
       ELSE /\ cret' = IF ~isReleaseVersion(env.version) \/ env.dev = "true"
                       THEN [cret EXCEPT !.data.fields = Put(@, "dev", TRUE)]
                       ELSE cret
            /\ IF env.debug
               THEN RunReturn(NoErr) /\ UNCHANGED <<sendIn, calls>>
               ELSE /\ sendIn' = [marshalOK |-> TRUE, endpoint |-> endpointOf(env)]
                    /\ calls' = [calls EXCEPT !.send = @ + 1]
                    /\ pc' = "send_marshal"
                    /\ runRet' = runRet
    /\ credentials' = credentials
    /\ RunFrame

RunSentRetries ==
    /\ pc = "run_sent"
    /\ IF sret.err # NoErr /\ calls.send < 2
       THEN /\ pc' = "send_marshal"
            /\ calls' = [calls EXCEPT !.send = @ + 1]
            /\ runRet' = runRet
       ELSE RunReturn(runResultAfterSend(sret.err)) /\ calls' = calls
    /\ UNCHANGED <<credentials, cret, sendIn>>
    /\ RunFrame

\* if _, err := telemetry.Send(...); err != nil { warn }; return nil
RunSent ==
    /\ pc = "run_sent"
    /\ RunReturn(runResultAfterSend(sret.err))
    /\ UNCHANGED <<credentials, calls, cret, sendIn>>
    /\ RunFrame

RunNext == RunStart \/ RunConfig \/ RunClient \/ RunCollected \/ RunSent

----------------------------------------------------------------------------
(* Clusters *)

MaxNodes == 2

Container(image, envVars) == [image |-> image, env |-> envVars]
Workload(name, containers) == [name |-> name, containers |-> containers]

NodeServer ==
    [labels |-> (LabelControlPlane :> "true"),
     osImage |-> "Ubuntu 22.04", kernelVersion |-> "5.15.0", architecture |-> "amd64",
     allocatable |-> ("cpu" :> 4 @@ "memory" :> 8)]
NodeMaster ==
    [labels |-> (LabelMaster :> "" @@ LabelSELinux :> "enabled"),
     osImage |-> "SLES 15", kernelVersion |-> "6.4.0", architecture |-> "arm64",
     allocatable |-> ("nvidia.com/gpu" :> 1 @@ "cpu" :> 8 @@ "memory" :> 16)]
\* a node that carries both role labels and has not reported its NodeInfo yet
NodeBoth ==
    [labels |-> (LabelControlPlane :> "" @@ LabelMaster :> ""),
     osImage |-> "", kernelVersion |-> "", architecture |-> "",
     allocatable |-> EmptyMap]
NodeWorker ==
    [labels |-> ("node-role.kubernetes.io/worker" :> "true" @@ LabelSELinux :> "permissive"),
     osImage |-> "Ubuntu 22.04", kernelVersion |-> "5.15.0", architecture |-> "amd64",
     allocatable |-> ("amd.com/gpu" :> 2 @@ "intel.com/gpu" :> 1 @@ "cpu" :> 8 @@ "memory" :> 16)]
NodePlain ==
    [labels |-> EmptyMap,
     osImage |-> "SLES 15", kernelVersion |-> "6.4.0", architecture |-> "arm64",
     allocatable |-> ("nvidia.com/gpu" :> 0 @@ "intel.com/gpu" :> 1 @@ "cpu" :> 2 @@ "memory" :> 4)]
NodeSELinuxEmpty ==
    [labels |-> (LabelSELinux :> ""),
     osImage |-> "Ubuntu 22.04", kernelVersion |-> "5.15.0", architecture |-> "amd64",
     allocatable |-> ("nvidia.com/gpu" :> 0 @@ "cpu" :> 4)]

NodeKinds == {NodeServer, NodeMaster, NodeBoth, NodeWorker, NodePlain, NodeSELinuxEmpty}

NodeLists == UNION {[1..n -> NodeKinds] : n \in 0..MaxNodes}

NoAgent == [exists |-> FALSE, containers |-> <<>>]

FullCluster ==
    [version |-> "v1.32.2+rke2r1",
     kubeSystem |-> [exists |-> TRUE, uid |-> "test-cluster-uuid"],
     nodes |-> <<NodeServer, NodeWorker>>,
     ksDaemonSets |->
        <<Workload("kube-proxy", <<Container("rancher/hardened-kube-proxy", <<>>)>>),
          Workload("kube-flannel-ds", <<Container("rancher/hardened-flannel:v0.22.0", <<>>)>>),
          Workload("rke2-ingress-nginx-controller",
                   <<Container("rancher/nginx-ingress-controller:v1.9.0", <<>>)>>)>>,
     ksDeployments |->
        <<Workload("rke2-coredns", <<Container("rancher/hardened-coredns:v1.10.1", <<>>)>>)>>,
     gpuDaemonSets |->
        [ns \in gpuNamespaces |->
            IF ns = "gpu-operator"
            THEN <<Workload("nvidia-device-plugin-daemonset",
                            <<Container("nvcr.io/nvidia/k8s-device-plugin:v0.14.0", <<>>)>>)>>
            ELSE IF ns = "kube-amd-gpu"
                 THEN <<Workload("amd-gpu-Driver", <<>>)>>
                 ELSE <<>>],
     cattle |->
        [namespace |-> TRUE,
         agent |-> [exists |-> TRUE,
                    containers |->
                      <<Container("rancher/rancher-agent:v2.8.0",
                                  <<[name |-> "CATTLE_FEATURES", value |-> ""],
                                    [name |-> "CATTLE_INSTALL_UUID",
                                     value |-> "rancher-install-uuid-123"]>>)>>]],
     service |-> [exists |-> TRUE, ipFamilies |-> <<"IPv6", "IPv4">>]]

BareCluster ==
    [version |-> "v1.30.0",
     kubeSystem |-> [exists |-> TRUE, uid |-> "uuid"],
     nodes |-> <<NodePlain>>,
     ksDaemonSets |-> <<>>,
     ksDeployments |-> <<Workload("Traefik", <<>>)>>,
     gpuDaemonSets |-> [ns \in gpuNamespaces |-> <<>>],
     cattle |-> [namespace |-> FALSE, agent |-> NoAgent],
     service |-> [exists |-> FALSE, ipFamilies |-> <<>>]]

\* a managed cluster without the agent deployment and without any add-on
UnmanagedAgentCluster ==
    [BareCluster EXCEPT !.cattle = [namespace |-> TRUE, agent |-> NoAgent],
                        !.ksDeployments = <<>>,
                        !.service = [exists |-> TRUE, ipFamilies |-> <<"IPv4">>]]

\* a control plane that reports an empty version.Info, and an empty namespace UID
NoVersionCluster == [BareCluster EXCEPT !.version = "", !.kubeSystem.uid = ""]

\* fake.NewClientset(): no object at all
EmptyCluster ==
    [BareCluster EXCEPT !.kubeSystem = [exists |-> FALSE, uid |-> ""],
                        !.nodes = <<>>, !.ksDeployments = <<>>]

\* cattle-cluster-agent deployments
AgentFull == FullCluster.cattle.agent
AgentNoTag ==
    [exists |-> TRUE, containers |-> <<Container("rancher/rancher-agent", <<>>)>>]
AgentSidecarFirst ==
    [exists |-> TRUE,
     containers |->
        <<Container("proxy:1.0", <<[name |-> "CATTLE_SERVER", value |-> "https://r"]>>),
          Container("rancher/rancher-agent:v2.9.0",
                    <<[name |-> "CATTLE_INSTALL_UUID", value |-> "uuid-of-second"]>>)>>]
AgentDigest ==
    [exists |-> TRUE,
     containers |->
        <<Container("registry:5000/rancher/rancher-agent:v2.8.0@sha256:abc",
                    <<[name |-> "CATTLE_INSTALL_UUID", value |-> ""],
                      [name |-> "CATTLE_INSTALL_UUID", value |-> "uuid-2"]>>)>>]
AgentNoContainers == [exists |-> TRUE, containers |-> <<>>]

Agents == {AgentFull, AgentNoTag, AgentSidecarFirst, AgentDigest, AgentNoContainers}

\* daemon-sets of kube-system
DSKubeProxy == Workload("kube-proxy", <<Container("rancher/hardened-kube-proxy:v1.30.0", <<>>)>>)
DSCanal == Workload("rke2-canal", <<Container("rancher/hardened-calico:v3.26.0", <<>>)>>)
DSCalico == Workload("calico-node", <<Container("calico/node:v3.26.0", <<>>)>>)
DSCilium == Workload("cilium", <<Container("cilium/cilium:v1.14.0", <<>>)>>)
DSWeave == Workload("Weave-Net", <<>>)
\* a daemon-set whose name contains two of the known substrings
DSCanalFlannel == Workload("canal-flannel-cfg", <<Container("flannel/flannel:v0.22.0", <<>>)>>)

CNIDaemonSetLists ==
    {<<DSKubeProxy>>, <<DSKubeProxy, DSCanal, DSCilium>>, <<DSCalico, DSCanal>>,
     <<DSCilium>>, <<DSKubeProxy, DSWeave, DSCalico>>,
     <<DSKubeProxy, DSCanalFlannel, DSCilium>>}

\* workloads of kube-system that are, or are not, ingress controllers
CoreDNS == Workload("rke2-coredns", <<Container("rancher/hardened-coredns:v1.10.1", <<>>)>>)
Traefik == Workload("Traefik", <<Container("rancher/mirrored-library-traefik:2.10.5", <<>>)>>)
NginxIngress == Workload("my-nginx-ingress", <<>>)
RKE2IngressNginx ==
    Workload("rke2-ingress-nginx-controller",
             <<Container("rancher/nginx-ingress-controller:v1.9.0", <<>>)>>)
\* a name that contains both traefik and nginx-ingress
TraefikNginx == Workload("traefik-nginx-ingress", <<Container("proxy", <<>>)>>)

IngressDeploymentLists ==
    {<<>>, <<CoreDNS>>, <<CoreDNS, Traefik, NginxIngress>>, <<TraefikNginx, Traefik>>}
IngressDaemonSetLists ==
    {<<>>, <<DSKubeProxy>>, <<DSKubeProxy, RKE2IngressNginx, Traefik>>, <<Traefik>>}

\* daemon-sets of the GPU operator namespaces
DSIntelPlugin ==
    Workload("intel-gpu-Device-Plugin", <<Container("intel/intel-gpu-plugin:0.29.0", <<>>)>>)
DSExporter == Workload("nvidia-dcgm-exporter", <<Container("nvidia/dcgm-exporter:3.3.0", <<>>)>>)

\* only the Intel namespace has a device plugin; the NVIDIA one has an exporter
IntelOnlyGPU ==
    [ns \in gpuNamespaces |->
        IF ns = "inteldeviceplugins-system" THEN <<DSExporter, DSIntelPlugin>>
        ELSE IF ns = "gpu-operator" THEN <<DSExporter>> ELSE <<>>]
\* only exporters: no namespace has a device plugin or a driver
NoPluginGPU == [ns \in gpuNamespaces |-> IF ns = "gpu-operator" THEN <<DSExporter>> ELSE <<>>]

\* the default/kubernetes service: absent, or with the IP families it declares
IPFamilyLists == {<<>>, <<"IPv4">>, <<"IPv6">>, <<"IPv4", "IPv6">>, <<"IPv6", "IPv4">>}
Services ==
    {[exists |-> FALSE, ipFamilies |-> <<>>]}
    \cup {[exists |-> TRUE, ipFamilies |-> l] : l \in IPFamilyLists}

CollectClusters ==
    {FullCluster, BareCluster, UnmanagedAgentCluster, EmptyCluster, NoVersionCluster}
    \cup {[FullCluster EXCEPT !.nodes = l] : l \in NodeLists}
    \cup {[FullCluster EXCEPT !.cattle.agent = a] : a \in Agents}
    \cup {[c EXCEPT !.service = s] : c \in {FullCluster, BareCluster}, s \in Services}
    \cup {[BareCluster EXCEPT !.ksDaemonSets = l] : l \in CNIDaemonSetLists}
    \cup {[BareCluster EXCEPT !.gpuDaemonSets = g] : g \in {IntelOnlyGPU, NoPluginGPU}}
    \cup {[BareCluster EXCEPT !.ksDeployments = d, !.ksDaemonSets = l] :
             d \in IngressDeploymentLists, l \in IngressDaemonSetLists}

Modes == {"recommended", "minimal"}

----------------------------------------------------------------------------
(* Specifications *)

SendIdle ==
    /\ attempt = 0
    /\ lastErr = NoErr
    /\ waits = <<>>
    /\ posts = 0
    /\ outcomes = <<>>
    /\ sret = NotReturned

CollectIdle ==
    /\ queries = <<>>
    /\ failed = {}
    /\ gpuLeft = gpuNamespaces
    /\ cdata = EmptyData
    /\ cret = NotReturned

NoEnv ==
    [disable |-> "", debug |-> FALSE, endpoint |-> "", dev |-> "", version |-> "dev",
     inCluster |-> TRUE]

\* Send called directly with any payload, endpoint and context.
SendInit ==
    /\ env = NoEnv
    /\ pc = "send_marshal"
    /\ caller = "api"
    /\ ctxCancelled \in BOOLEAN
    /\ sendIn \in [marshalOK : BOOLEAN, endpoint : Endpoints]
    /\ SendIdle
    /\ CollectIdle
    /\ cluster = BareCluster
    /\ mode = "recommended"
    /\ mayFail = {}
    /\ runRet = NotReturned
    /\ credentials = FALSE
    /\ calls = [collect |-> 0, send |-> 1]

SpecSend == SendInit /\ [][SendNext]_vars

\* Collect called directly on any cluster, in either mode; any API call may fail.
CollectInit ==
    /\ env = NoEnv
    /\ pc = "collect_version"
    /\ caller = "api"
    /\ ctxCancelled = FALSE
    /\ sendIn = [marshalOK |-> TRUE, endpoint |-> DefaultEndpoint]
    /\ SendIdle
    /\ CollectIdle
    /\ cluster \in CollectClusters
    /\ mode \in Modes
    /\ mayFail = Calls
    /\ runRet = NotReturned
    /\ credentials = FALSE
    /\ calls = [collect |-> 1, send |-> 0]

SpecCollect == CollectInit /\ [][CollectNext]_vars

\* The program: run() in any environment.
Versions == {"dev", "v1.2.3", "V1.32.2+rke2r1", "v1.2.3-5-gabcdef0"}

Envs ==
    [disable : {"", "true", "false"}, debug : BOOLEAN,
     endpoint : {"", "http://mock-responder:8080/v1/check", BadEndpoint},
     dev : {"", "true"}, version : Versions, inCluster : BOOLEAN]

RunFaults == {{}, {"ServerVersion"}, {"Nodes"}, {"CNI/DaemonSets"}}

Init ==
    /\ env \in Envs
    /\ pc = "run_start"
    /\ caller = "run"
    /\ ctxCancelled = FALSE
    /\ sendIn = [marshalOK |-> TRUE, endpoint |-> DefaultEndpoint]
    /\ SendIdle
    /\ CollectIdle
    /\ cluster \in {FullCluster, EmptyCluster}
    /\ mode \in Modes
    /\ mayFail \in RunFaults
    /\ runRet = NotReturned
    /\ credentials = FALSE
    /\ calls = [collect |-> 0, send |-> 0]

Next == RunNext \/ CollectNext \/ SendSteps

Spec == Init /\ [][Next]_vars

\* The program built from any version string, with any SECURITY_RESPONDER_DEV,
\* on a healthy cluster.
BuildVersions ==
    {"v1.2.3", "v1.32.2", "v0.1.0", "v1.2.3-rc1", "v1.2.3-alpha", "v1.2.3+rke2r1", "V1.2.3",
     "v1.2.3-5-gabcdef0", "v1.2.3-dirty", "v1.2.3-5-gabcdef0-dirty", "abcdef0", "94b83fc",
     "dev", "v1.2.3-dev", "v1.2.3-test", "", "v1.2.3-rc1+rke2r1", "v1.2", "1.2.3",
     "v1.2.3-1rc"}

BuildEnvs ==
    [disable : {""}, debug : BOOLEAN, endpoint : {""}, dev : {"", "true", "1"},
     version : BuildVersions, inCluster : {TRUE}]

BuildInit ==
    /\ env \in BuildEnvs
    /\ pc = "run_start"
    /\ caller = "run"
    /\ ctxCancelled = FALSE
    /\ sendIn = [marshalOK |-> TRUE, endpoint |-> DefaultEndpoint]
    /\ SendIdle
    /\ CollectIdle
    /\ cluster = FullCluster
    /\ mode = "recommended"
    /\ mayFail = {}
    /\ runRet = NotReturned
    /\ credentials = FALSE
    /\ calls = [collect |-> 0, send |-> 0]

SpecBuild == BuildInit /\ [][Next]_vars

\* Collect on a cluster whose CNI daemon-set runs any image reference.
Images ==
    {"nginx:1.21", "nginx:latest", "registry.example.com/nginx:v1.0.0", "nginx",
     "nginx@sha256:abc123", "nginx:v1.0.0@sha256:abc123", "gcr.io/project/image:tag", "",
     "nginx:", ":", "@", "a:b@c", "nginx:1.21@", "registry:5000/nginx", "a@b:c@d:e@f",
     "registry:5000/nginx:1.21", "nginx:@sha256"}

ImageCluster(image) ==
    [FullCluster EXCEPT !.ksDaemonSets = <<Workload("cilium", <<Container(image, <<>>)>>)>>]

ImageInit ==
    /\ env = NoEnv
    /\ pc = "collect_version"
    /\ caller = "api"
    /\ ctxCancelled = FALSE
    /\ sendIn = [marshalOK |-> TRUE, endpoint |-> DefaultEndpoint]
    /\ SendIdle
    /\ CollectIdle
    /\ cluster \in {ImageCluster(image) : image \in Images}
    /\ mode \in Modes
    /\ mayFail = {}
    /\ runRet = NotReturned
    /\ credentials = FALSE
    /\ calls = [collect |-> 1, send |-> 0]

SpecImage == ImageInit /\ [][CollectNext]_vars

\* Collect on a one-node cluster whose node carries any labels.
SELinuxValues == {"enabled", "disabled", "permissive", "", "Enabled", "true"}

NodeLabelSets ==
    {EmptyMap, (LabelMaster :> "enabled")}
    \cup {(LabelSELinux :> v) : v \in SELinuxValues}
    \cup {(LabelSELinux :> v @@ LabelControlPlane :> "true") : v \in SELinuxValues}

LabelInit ==
    /\ env = NoEnv
    /\ pc = "collect_version"
    /\ caller = "api"
    /\ ctxCancelled = FALSE
    /\ sendIn = [marshalOK |-> TRUE, endpoint |-> DefaultEndpoint]
    /\ SendIdle
    /\ CollectIdle
    /\ cluster \in {[FullCluster EXCEPT !.nodes = <<[NodeWorker EXCEPT !.labels = l]>>] :
                       l \in NodeLabelSets}
    /\ mode \in Modes
    /\ mayFail = {}
    /\ runRet = NotReturned
    /\ credentials = FALSE
    /\ calls = [collect |-> 1, send |-> 0]

SpecLabel == LabelInit /\ [][CollectNext]_vars

----------------------------------------------------------------------------
(* Properties of Send *)

Is2xx(o) == o.kind = "response" /\ o.code >= 200 /\ o.code <= 299
LastOutcome == outcomes[Len(outcomes)]
AllAttemptsFailed == outcomes # <<>> /\ \A i \in 1..Len(outcomes) : ~Is2xx(outcomes[i])
ErrMatches(e, o, i) ==
    /\ e.attempt = i
    /\ \/ o.kind = "transport" /\ e.kind = "transport"
       \/ o.kind = "response" /\ e.kind = "status" /\ e.code = o.code

\* C1: when every delivery attempt fails (transport error or a status outside
\* 200-299), Send issues exactly 3 POSTs, never a 4th, and returns a non-nil error.
C1_AllFailThreePosts ==
    /\ posts <= 3
    /\ (sret.returned /\ AllAttemptsFailed) =>
          (posts = 3 /\ Len(outcomes) = 3 /\ sret.err # NoErr)

C1_Witness ==
    sret.returned /\ AllAttemptsFailed /\ posts = 3 /\ sret.err # NoErr

\* C2: if attempts 1..k-1 fail and attempt k (k <= 3) gets a 2xx status, Send
\* returns a nil error after exactly k POSTs; nothing follows the first 2xx: no
\* further POST and no further wait.
C2_First2xxEndsLoop ==
    /\ \A i \in 1..(Len(outcomes) - 1) : ~Is2xx(outcomes[i])
    /\ (outcomes # <<>> /\ Is2xx(LastOutcome)) =>
          /\ sret.returned
          /\ sret.err = NoErr
          /\ Len(outcomes) <= 3
          /\ posts = Len(outcomes)
          /\ Len(waits) = Len(outcomes) - 1

C2_Witness ==
    /\ sret.returned /\ sret.err = NoErr
    /\ Len(outcomes) = 3 /\ posts = 3
    /\ ~Is2xx(outcomes[1]) /\ ~Is2xx(outcomes[2]) /\ Is2xx(outcomes[3])

\* C3: a 2xx status whose body does not decode as a Response makes Send return
\* a nil response and a nil error at once, without a retry.
C3_MalformedBodyIsSuccess ==
    (outcomes # <<>> /\ Is2xx(LastOutcome) /\ ~LastOutcome.body.json) =>
        /\ sret.returned
        /\ sret.resp = NilResponse
        /\ sret.err = NoErr
        /\ posts = Len(outcomes)

C3_Witness ==
    /\ sret.returned /\ sret.resp = NilResponse /\ sret.err = NoErr
    /\ posts = 1 /\ Is2xx(outcomes[1]) /\ ~outcomes[1].body.json

\* C4 as claimed: whenever Send returns a non-nil error, 3 attempts have failed
\* and the error is the one of the 3rd attempt.
C4_OnlyErrorIsLastAttempt ==
    (sret.returned /\ sret.err # NoErr) =>
        /\ posts = 3
        /\ Len(outcomes) = 3
        /\ ErrMatches(sret.err, outcomes[3], 3)

\* C4 amended: Send returns a non-nil error either before any POST, when the
\* payload cannot be serialised or no request can be built for the address, or
\* after 3 failed attempts, and then it is the error of the 3rd attempt.
C4_ErrorIsSetupOrLastAttempt ==
    (sret.returned /\ sret.err # NoErr) =>
        \/ sret.err.kind = "marshal" /\ ~sendIn.marshalOK /\ posts = 0
        \/ sret.err.kind = "request" /\ ~RequestCreatable(sendIn.endpoint) /\ posts = 0
        \/ /\ posts = 3
           /\ Len(outcomes) = 3
           /\ AllAttemptsFailed
           /\ ErrMatches(sret.err, outcomes[3], 3)

C4_Witness ==
    /\ sret.returned /\ sret.err # NoErr
    /\ posts = 3 /\ Len(outcomes) = 3
    /\ outcomes[1].kind = "transport" /\ outcomes[3].kind = "response"
    /\ sret.err.kind = "status" /\ sret.err.code = outcomes[3].code

\* C5: once the context is cancelled, Send completes no retry wait and starts no
\* attempt beyond those already made.
C5_CancellationObserved ==
    [][ctxCancelled => (waits' = waits /\ (posts > 0 => posts' = posts))]_vars

----------------------------------------------------------------------------
(* Properties of run *)

\* C6: delivery never changes the outcome of the program: whenever Collect has
\* succeeded, run returns nil, whether Send returned a response, nil or an error.
C6_DeliveryNeverFailsRun ==
    (runRet.returned /\ cret.returned /\ cret.err = NoErr) => runRet.err = NoErr

C6_Witness ==
    /\ runRet.returned /\ runRet.err = NoErr
    /\ cret.returned /\ cret.err = NoErr
    /\ sret.returned /\ sret.err # NoErr

\* C7: with DISABLE_SECURITY_RESPONDER_CHECK = "true", run returns nil without
\* acquiring cluster credentials, without calling Collect (no cluster query)
\* and without calling Send (no HTTP request).
C7_DisabledDoesNothing ==
    env.disable = "true" =>
        /\ pc \in {"run_start", "done"}
        /\ pc = "done" => (runRet.returned /\ runRet.err = NoErr)
        /\ ~credentials
        /\ calls.collect = 0 /\ queries = <<>>
        /\ calls.send = 0 /\ posts = 0

C7_Witness ==
    env.disable = "true" /\ pc = "done" /\ runRet.returned /\ runRet.err = NoErr

----------------------------------------------------------------------------
(* Properties of Collect *)

FatalSteps == <<"ServerVersion", "Namespace/kube-system", "Nodes">>
FatalCalls == {FatalSteps[i] : i \in 1..3}
Issued == {queries[i] : i \in 1..Len(queries)}
GPUCalls == {"GPU/gpu-operator", "GPU/kube-amd-gpu", "GPU/inteldeviceplugins-system"}
Fields == cret.data.fields

\* C8: the fatal steps run in the order server version, kube-system namespace,
\* node list; when one of them fails (a missing kube-system namespace included)
\* Collect returns a non-nil error and no fact-set, and performs no later step.
C8_FatalStepsAbort ==
    /\ \A i \in 1..Len(queries) :
          IF i <= 3 THEN queries[i] = FatalSteps[i] ELSE queries[i] \notin FatalCalls
    /\ (failed \cap FatalCalls # {}) =>
          /\ cret.returned
          /\ cret.err # NoErr
          /\ cret.data = NilData
          /\ queries[Len(queries)] \in failed
          /\ Len(queries) <= 3
    /\ (~cluster.kubeSystem.exists /\ Len(queries) >= 2) =>
          (Len(queries) = 2 /\ cret.returned /\ cret.err # NoErr)

C8_Witness ==
    /\ ~cluster.kubeSystem.exists
    /\ cret.returned /\ cret.err # NoErr /\ cret.data = NilData
    /\ queries = <<"ServerVersion", "Namespace/kube-system">>

\* C9: once the three fatal steps have succeeded, a failing detection query never
\* makes Collect fail: Collect returns a fact-set, the failed detection has its
\* neutral value (unknown, none, or omitted), and every detection step is run.
C9_SoftFailuresDowngrade ==
    (cret.returned /\ failed \cap FatalCalls = {}) =>
        /\ cret.err = NoErr
        /\ cret.data.present
        /\ {"CNI/DaemonSets", "Ingress/Deployments", "Rancher/Namespace",
            "IPStack/Service"} \subseteq Issued
        /\ Issued \cap GPUCalls # {}
        /\ "CNI/DaemonSets" \in failed =>
              (Fields["cni-plugin"] = "unknown" /\ ~Has(Fields, "cni-version"))
        /\ "Ingress/Deployments" \in failed =>
              (Fields["ingress-controller"] = "unknown" /\ ~Has(Fields, "ingress-version"))
        /\ "Ingress/DaemonSets" \in failed =>
              (Fields["ingress-controller"] = "none" /\ ~Has(Fields, "ingress-version"))
        /\ GPUCalls \subseteq failed =>
              (~Has(Fields, "gpu-operator") /\ ~Has(Fields, "gpu-operator-version"))
        /\ "Rancher/Namespace" \in failed =>
              /\ Fields["rancher-managed"] = FALSE
              /\ mode = "recommended" =>
                    (~Has(Fields, "rancher-version") /\ ~Has(Fields, "rancher-install-uuid"))
        /\ "Rancher/Deployment" \in failed =>
              /\ Fields["rancher-managed"] = TRUE
              /\ mode = "recommended" =>
                    (~Has(Fields, "rancher-version") /\ ~Has(Fields, "rancher-install-uuid"))
        /\ "IPStack/Service" \in failed => Fields["ip-stack"] = "unknown"

C9_Witness ==
    /\ cluster = FullCluster
    /\ cret.returned /\ cret.err = NoErr /\ cret.data.present
    /\ failed = {"CNI/DaemonSets", "Ingress/Deployments", "Rancher/Namespace",
                 "IPStack/Service"} \cup GPUCalls
    /\ Len(queries) = 10

\* C10: in recommended mode a node with the control-plane or the master role
\* label (or both) counts as a server node and never as an agent node, every
\* other node counts as an agent node, and the two counts add up to the number
\* of nodes.
ServerNodes ==
    {i \in 1..Len(cluster.nodes) :
        \/ "node-role.kubernetes.io/control-plane" \in DOMAIN cluster.nodes[i].labels
        \/ "node-role.kubernetes.io/master" \in DOMAIN cluster.nodes[i].labels}

C10_NodeRoleCounts ==
    (cret.returned /\ cret.err = NoErr /\ mode = "recommended") =>
        /\ Fields["serverNodeCount"] = Cardinality(ServerNodes)
        /\ Fields["agentNodeCount"] = Len(cluster.nodes) - Cardinality(ServerNodes)
        /\ Fields["serverNodeCount"] + Fields["agentNodeCount"] = Len(cluster.nodes)

C10_Witness ==
    /\ cret.returned /\ cret.err = NoErr /\ mode = "recommended"
    /\ cluster.nodes = <<NodeMaster, NodePlain>>
    /\ Fields["serverNodeCount"] = 1 /\ Fields["agentNodeCount"] = 1

NodeAggregateKeys ==
    {"serverNodeCount", "agentNodeCount", "gpu-nodes",
     "serverCPU", "agentCPU", "serverMemory", "agentMemory"}

\* C11: in minimal mode the server, agent and GPU node counts and the server
\* and agent CPU and memory aggregates of a returned fact-set are all -1,
\* whatever the nodes of the cluster are (so any two clusters that differ only
\* in their nodes give the same values).
C11_MinimalSentinels ==
    (cret.returned /\ cret.err = NoErr /\ mode = "minimal") =>
        \A k \in NodeAggregateKeys : Has(Fields, k) /\ Fields[k] = -1

C11_Witness ==
    /\ cret.returned /\ cret.err = NoErr /\ mode = "minimal"
    /\ cluster.nodes = <<NodeMaster, NodeWorker>>
    /\ ResourceSum(cluster.nodes, TRUE, "cpu") = 8
    /\ ResourceSum(cluster.nodes, FALSE, "memory") = 16
    /\ Fields["serverCPU"] = -1 /\ Fields["gpu-nodes"] = -1

\* What the agent deployments of the clusters carry: the image tag of the first
\* container and the CATTLE_INSTALL_UUID of the first container.
AgentCarries(agent) ==
    CASE agent = AgentFull -> [version |-> "v2.8.0", installUUID |-> "rancher-install-uuid-123"]
      [] agent = AgentNoTag -> [version |-> "", installUUID |-> ""]
      [] agent = AgentSidecarFirst -> [version |-> "1.0", installUUID |-> ""]
      [] agent = AgentDigest -> [version |-> "abc", installUUID |-> "uuid-2"]
      [] agent = AgentNoContainers -> [version |-> "", installUUID |-> ""]

\* a field holds the value v; an empty value is an omitted field
Carries(f, k, v) == IF v = "" THEN ~Has(f, k) ELSE Has(f, k) /\ f[k] = v

Answered(call) == call \in Issued /\ call \notin failed

\* C12: in both modes rancher-managed is true exactly when the cattle-system
\* namespace was found (it exists and the query for it was answered); in
\* minimal mode rancher-version and rancher-install-uuid are present and empty
\* whatever the agent deployment carries; in recommended mode they carry the
\* version and the install identifier of the agent deployment.
C12_MinimalKeepsStatusDropsDetails ==
    (cret.returned /\ cret.err = NoErr) =>
        /\ Fields["rancher-managed"] = Answered("Rancher/Namespace")
        /\ Fields["rancher-managed"] => cluster.cattle.namespace
        /\ ("Rancher/Namespace" \notin failed) =>
              Fields["rancher-managed"] = cluster.cattle.namespace
        /\ mode = "minimal" =>
              /\ Has(Fields, "rancher-version") /\ Fields["rancher-version"] = ""
              /\ Has(Fields, "rancher-install-uuid") /\ Fields["rancher-install-uuid"] = ""
        /\ (mode = "recommended" /\ Answered("Rancher/Deployment")) =>
              /\ Carries(Fields, "rancher-version", AgentCarries(cluster.cattle.agent).version)
              /\ Carries(Fields, "rancher-install-uuid",
                         AgentCarries(cluster.cattle.agent).installUUID)

C12_Witness ==
    /\ cret.returned /\ cret.err = NoErr /\ mode = "minimal"
    /\ cluster = FullCluster
    /\ Answered("Rancher/Deployment")
    /\ Fields["rancher-managed"] = TRUE
    /\ Fields["rancher-version"] = "" /\ Fields["rancher-install-uuid"] = ""

\* The address families the default/kubernetes service was seen to declare:
\* none when the service is missing or the query for it failed.
SeenFamilies ==
    IF cluster.service.exists /\ Answered("IPStack/Service")
    THEN {cluster.service.ipFamilies[i] : i \in 1..Len(cluster.service.ipFamilies)}
    ELSE {}

\* C13: ip-stack depends only on the set of address families of the
\* default/kubernetes service: {IPv4} gives ipv4-only, {IPv6} gives ipv6-only,
\* both families give dual-stack in either order, and a missing service or an
\* empty family list gives unknown, Collect succeeding all the same.
C13_IPStackFromFamilies ==
    (cret.returned /\ failed \cap FatalCalls = {}) =>
        /\ cret.err = NoErr
        /\ Has(Fields, "ip-stack")
        /\ Fields["ip-stack"] =
              CASE SeenFamilies = {"IPv4"} -> "ipv4-only"
                [] SeenFamilies = {"IPv6"} -> "ipv6-only"
                [] SeenFamilies = {"IPv4", "IPv6"} -> "dual-stack"
                [] SeenFamilies = {} -> "unknown"

C13_Witness ==
    /\ cret.returned /\ cret.err = NoErr
    /\ cluster = [BareCluster EXCEPT !.service = [exists |-> TRUE,
                                                  ipFamilies |-> <<"IPv6", "IPv4">>]]
    /\ Answered("IPStack/Service")
    /\ Fields["ip-stack"] = "dual-stack"

\* The known CNI substrings in the order the table of detectCNIPlugin lists them.
cniPrecedence == <<"canal", "flannel", "calico", "cilium", "weave">>

\* The first substring of cniPrecedence that the lower-cased name contains
\* ("unknown" when it contains none).
FirstKnownCNI(name) ==
    LET hits == {i \in 1..Len(cniPrecedence) : Contains(ToLower(name), cniPrecedence[i])}
    IN  IF hits = {} THEN "unknown" ELSE cniPrecedence[FirstIndex(hits)]

\* The name of the first daemon-set of kube-system that contains a known
\* substring ("" when there is none).
FirstCNIDaemonSet ==
    LET i == FirstIndex(CNIHits(cluster.ksDaemonSets))
    IN  IF i = 0 THEN "" ELSE cluster.ksDaemonSets[i].name

\* C14: when the daemon-sets of kube-system have been listed, cni-plugin is
\* decided by the first daemon-set whose lower-cased name contains a known
\* substring, and within that name by the fixed precedence canal, flannel,
\* calico, cilium, weave, so that one list always gives one plugin; unknown
\* when no daemon-set matches.
C14_CNIFirstMatchFixedOrder ==
    (Answered("CNI/DaemonSets") /\ Has(cdata.fields, "cni-plugin")) =>
        cdata.fields["cni-plugin"] = FirstKnownCNI(FirstCNIDaemonSet)

\* The controller a workload name stands for: "" when it is not an ingress
\* controller.
IngressOf(w) ==
    LET n == ToLower(w.name) IN
    IF Contains(n, "nginx-ingress") \/ Contains(n, "rke2-ingress-nginx")
    THEN "rke2-ingress-nginx"
    ELSE IF Contains(n, "traefik") THEN "traefik" ELSE ""

\* the controller of the first ingress workload of a list, "" when it has none
FirstIngressOf(list) ==
    LET hits == {i \in 1..Len(list) : IngressOf(list[i]) # ""}
    IN  IF hits = {} THEN "" ELSE IngressOf(list[FirstIndex(hits)])

\* C15: with both listings answered, ingress-controller is the controller of
\* the first matching deployment of kube-system when there is one (the
\* daemon-sets are then not even listed), otherwise that of the first matching
\* daemon-set, and none (never unknown) when neither kind has a match.
C15_IngressDeploymentsFirst ==
    (cret.returned /\ cret.err = NoErr /\ Answered("Ingress/Deployments")
       /\ "Ingress/DaemonSets" \notin failed) =>
        LET d == FirstIngressOf(cluster.ksDeployments)
            s == FirstIngressOf(cluster.ksDaemonSets)
        IN  /\ Fields["ingress-controller"] =
                  IF d # "" THEN d ELSE IF s # "" THEN s ELSE "none"
            /\ Fields["ingress-controller"] # "unknown"
            /\ d # "" <=> "Ingress/DaemonSets" \notin Issued

C15_Witness ==
    /\ cret.returned /\ cret.err = NoErr
    /\ cluster.ksDeployments = <<CoreDNS, Traefik, NginxIngress>>
    /\ cluster.ksDaemonSets = <<DSKubeProxy, RKE2IngressNginx, Traefik>>
    /\ Answered("Ingress/Deployments")
    /\ Fields["ingress-controller"] = "traefik"

\* C16: in recommended mode, a cluster without the cattle-system namespace
\* gives rancher-managed = false without an error and without looking for the
\* agent; the namespace without the cattle-cluster-agent deployment gives true
\* with neither rancher-version nor rancher-install-uuid; with the deployment,
\* rancher-version is the image tag of its first container and
\* rancher-install-uuid the CATTLE_INSTALL_UUID of that container.
C16_RancherDetection ==
    (cret.returned /\ failed \cap FatalCalls = {} /\ mode = "recommended") =>
        /\ cret.err = NoErr
        /\ ~cluster.cattle.namespace =>
              /\ Fields["rancher-managed"] = FALSE
              /\ "Rancher/Deployment" \notin Issued
              /\ ~Has(Fields, "rancher-version") /\ ~Has(Fields, "rancher-install-uuid")
        /\ (Answered("Rancher/Namespace") /\ ~cluster.cattle.agent.exists) =>
              /\ Fields["rancher-managed"] = TRUE
              /\ "Rancher/Deployment" \in failed
              /\ ~Has(Fields, "rancher-version") /\ ~Has(Fields, "rancher-install-uuid")
        /\ Answered("Rancher/Deployment") =>
              LET first == cluster.cattle.agent.containers IN
              /\ Fields["rancher-managed"] = TRUE
              /\ Carries(Fields, "rancher-version", AgentCarries(cluster.cattle.agent).version)
              /\ Carries(Fields, "rancher-install-uuid",
                         AgentCarries(cluster.cattle.agent).installUUID)
              /\ Has(Fields, "rancher-install-uuid") =>
                    \E i \in 1..Len(first[1].env) :
                        /\ first[1].env[i].name = "CATTLE_INSTALL_UUID"
                        /\ first[1].env[i].value = Fields["rancher-install-uuid"]

C16_Witness ==
    /\ cret.returned /\ cret.err = NoErr /\ mode = "recommended"
    /\ cluster.cattle.agent = AgentDigest
    /\ Answered("Rancher/Deployment")
    /\ Fields["rancher-managed"] = TRUE
    /\ Fields["rancher-version"] = "abc" /\ Fields["rancher-install-uuid"] = "uuid-2"

----------------------------------------------------------------------------
(* Properties of run: the fact-set it sends *)

\* The clean release tags among BuildVersions: v<n>.<n>.<n> (in either case),
\* alone or with one - or + suffix that starts with a letter, and without
\* dirty, dev or test in it.
CleanReleaseTags ==
    {"v1.2.3", "v1.32.2", "v0.1.0", "v1.2.3-rc1", "v1.2.3-alpha", "v1.2.3+rke2r1", "V1.2.3"}

\* run is past the dev mark: Collect has returned a fact-set to it
PastDevMark ==
    caller = "run" /\ cret.returned /\ cret.err = NoErr /\ pc # "run_collected"

\* C17: the fact-set Collect returns has no dev field; run adds dev = true
\* exactly when the build version is not a clean release tag or
\* SECURITY_RESPONDER_DEV is "true", and for a clean release tag without that
\* setting the field stays absent.
C17_DevMark ==
    /\ (caller = "run" /\ cret.returned /\ cret.err = NoErr /\ pc = "run_collected") =>
          ~Has(Fields, "dev")
    /\ PastDevMark =>
          /\ Has(Fields, "dev") <=> (env.version \notin CleanReleaseTags \/ env.dev = "true")
          /\ Has(Fields, "dev") => Fields["dev"] = TRUE

C17_Witness ==
    /\ PastDevMark
    /\ env.version = "v1.2.3+rke2r1" /\ env.dev = "1"
    /\ ~Has(Fields, "dev")
    /\ ~env.debug /\ posts > 0

\* C18: with the debug flag set, run never calls Send and no HTTP request is
\* made; once Collect has returned a fact-set, run has returned nil, having
\* called Collect once.
C18_DebugNeverSends ==
    env.debug =>
        /\ calls.send = 0 /\ posts = 0 /\ outcomes = <<>> /\ ~sret.returned
        /\ pc \notin {"send_marshal", "send_loop", "send_sleep", "send_request", "run_sent"}
        /\ PastDevMark =>
              /\ pc = "done"
              /\ runRet = [returned |-> TRUE, err |-> NoErr]
              /\ calls.collect = 1

C18_Witness ==
    /\ env.debug /\ env.disable = "false"
    /\ cluster = FullCluster
    /\ PastDevMark
    /\ pc = "done" /\ runRet = [returned |-> TRUE, err |-> NoErr]
    /\ calls = [collect |-> 1, send |-> 0]

----------------------------------------------------------------------------
(* Properties of Collect: tags and add-ons *)

gpuPrecedence == <<"gpu-operator", "kube-amd-gpu", "inteldeviceplugins-system">>

\* a namespace whose listing did not fail and that has a daemon-set with a
\* device-plugin or driver marker
HasGPUOperator(ns) ==
    ("GPU/" \o ns) \notin failed /\ GPUHits(cluster.gpuDaemonSets[ns]) # {}

\* C20: gpu-operator is the operator of the first namespace, in the fixed order
\* gpu-operator, kube-amd-gpu, inteldeviceplugins-system, whose listing did not
\* fail and that has a matching daemon-set, so that one cluster always gives
\* one operator; with no such namespace the field is omitted (none).
C20_GPUOperatorFirstNamespace ==
    (cret.returned /\ cret.err = NoErr) =>
        LET hits == {i \in 1..Len(gpuPrecedence) : HasGPUOperator(gpuPrecedence[i])}
        IN  IF hits = {}
            THEN ~Has(Fields, "gpu-operator") /\ ~Has(Fields, "gpu-operator-version")
            ELSE /\ Has(Fields, "gpu-operator")
                 /\ Fields["gpu-operator"] = gpuOperatorOf(gpuPrecedence[FirstIndex(hits)])

----------------------------------------------------------------------------
(* Properties of Collect: optional fields and node fields *)

\* C21: in a fact-set returned in recommended mode, gpu-operator is never none
\* and gpu-operator-version comes only with gpu-operator; cni-version comes
\* only with a detected cni-plugin (not unknown); ingress-version only with a
\* detected ingress-controller (not none, not unknown); rancher-version and
\* rancher-install-uuid only with rancher-managed = true.
C21_NoDetailWithoutParent ==
    (cret.returned /\ cret.err = NoErr /\ mode = "recommended") =>
        /\ Has(Fields, "gpu-operator") => Fields["gpu-operator"] # "none"
        /\ Has(Fields, "gpu-operator-version") =>
              (Has(Fields, "gpu-operator") /\ Fields["gpu-operator-version"] # "")
        /\ Has(Fields, "cni-version") =>
              /\ Has(Fields, "cni-plugin")
              /\ Fields["cni-plugin"] \in {"canal", "flannel", "calico", "cilium", "weave"}
              /\ Fields["cni-version"] # ""
        /\ Has(Fields, "ingress-version") =>
              /\ Has(Fields, "ingress-controller")
              /\ Fields["ingress-controller"] \in {"rke2-ingress-nginx", "traefik"}
              /\ Fields["ingress-version"] # ""
        /\ (Has(Fields, "rancher-version") \/ Has(Fields, "rancher-install-uuid")) =>
              (Has(Fields, "rancher-managed") /\ Fields["rancher-managed"] = TRUE)

C21_Witness ==
    /\ cret.returned /\ cret.err = NoErr /\ mode = "recommended"
    /\ cluster = FullCluster
    /\ failed = {"Ingress/Deployments"}
    /\ Fields["cni-plugin"] = "flannel" /\ Has(Fields, "cni-version")
    /\ Fields["ingress-controller"] = "unknown" /\ ~Has(Fields, "ingress-version")
    /\ Has(Fields, "gpu-operator-version")
    /\ Has(Fields, "rancher-version")

\* C22: for a non-empty node list, os, kernel and arch are the OS image, the
\* kernel version and the architecture of the first node of the list.
C22_OSFromFirstNode ==
    (cret.returned /\ cret.err = NoErr /\ cluster.nodes # <<>>) =>
        /\ Fields["os"] = cluster.nodes[1].osImage
        /\ Fields["kernel"] = cluster.nodes[1].kernelVersion
        /\ Fields["arch"] = cluster.nodes[1].architecture

\* the vendors of the GPU resources a node advertises with a positive quantity
VendorsOf(node) ==
    {v \in {"nvidia", "amd", "intel"} :
        LET res == v \o ".com/gpu" IN
        res \in DOMAIN node.allocatable /\ node.allocatable[res] > 0}

GPUNodes == {i \in 1..Len(cluster.nodes) : VendorsOf(cluster.nodes[i]) # {}}

\* C23: in recommended mode gpu-nodes is the number of nodes that advertise a
\* positive quantity of nvidia.com/gpu, amd.com/gpu or intel.com/gpu, each node
\* counted once; gpu-vendor is a vendor of the first such node of the list (the
\* first of nvidia, amd, intel it advertises) and is absent when there is none.
C23_GPUNodeCountAndVendor ==
    (cret.returned /\ cret.err = NoErr /\ mode = "recommended") =>
        /\ Fields["gpu-nodes"] = Cardinality(GPUNodes)
        /\ Has(Fields, "gpu-vendor") <=> GPUNodes # {}
        /\ GPUNodes # {} =>
              LET vendors == VendorsOf(cluster.nodes[FirstIndex(GPUNodes)]) IN
              /\ Fields["gpu-vendor"] \in vendors
              /\ "nvidia" \in vendors => Fields["gpu-vendor"] = "nvidia"
              /\ ("amd" \in vendors /\ "nvidia" \notin vendors) => Fields["gpu-vendor"] = "amd"

C23_Witness ==
    /\ cret.returned /\ cret.err = NoErr /\ mode = "recommended"
    /\ cluster.nodes = <<NodePlain, NodeWorker>>
    /\ Fields["gpu-nodes"] = 2
    /\ Fields["gpu-vendor"] = "intel"

----------------------------------------------------------------------------
(* Properties of Send: waits and results *)

\* the waits so far are the first waits of the schedule 2 s, 4 s
WaitsOnSchedule == waits \in {<<>>, <<2>>, <<2, 4>>}

\* a step that waits: it follows a failed attempt that is not the last one, is
\* the only wait since that attempt, and lasts 2 s times the attempts made
WaitStep ==
    /\ posts >= 1 /\ posts < 3
    /\ ~Is2xx(outcomes[posts])
    /\ Len(waits) = posts - 1
    /\ waits' = Append(waits, 2 * posts)
    /\ posts' = posts /\ ~sret.returned

\* C24: Send makes its first attempt without waiting, waits 2 s before the
\* second attempt and 4 s before the third; it waits only after a failed
\* attempt that has an attempt remaining, once, and has not waited after its
\* last attempt when it returns.
C24_BackoffWaits ==
    /\ [](/\ WaitsOnSchedule
          /\ posts <= 1 + Len(waits)
          /\ posts = 0 => waits = <<>>
          /\ (sret.returned /\ posts > 0) => Len(waits) = posts - 1)
    /\ [][waits' # waits => WaitStep]_vars

C24_Witness ==
    /\ pc = "send_request" /\ attempt = 3
    /\ waits = <<2, 4>> /\ posts = 2
    /\ ~Is2xx(outcomes[1]) /\ ~Is2xx(outcomes[2])

\* the image reference of the CNI daemon-set
CNIImage == cluster.ksDaemonSets[1].containers[1].image

NoChar(s, c) == \A i \in 1..Len(s) : SubSeq(s, i, i) # c

\* v is the part of s before its first '@' (all of s when it has none)
UpToFirstAt(s, v) ==
    \/ NoChar(s, "@") /\ v = s
    \/ \E j \in 1..Len(s) :
          SubSeq(s, j, j) = "@" /\ NoChar(SubSeq(s, 1, j - 1), "@") /\ v = SubSeq(s, 1, j - 1)

\* v is what follows the last ':' of image, cut at the first '@' after it; the
\* empty string when image has no ':'
IsVersionOf(image, v) ==
    \/ NoChar(image, ":") /\ v = ""
    \/ \E i \in 1..Len(image) :
          /\ SubSeq(image, i, i) = ":"
          /\ NoChar(SubSeq(image, i + 1, Len(image)), ":")
          /\ UpToFirstAt(SubSeq(image, i + 1, Len(image)), v)

\* the version recorded for the CNI plugin ("" when none is recorded)
CNIVersion == IF Has(Fields, "cni-version") THEN Fields["cni-version"] ELSE ""

\* C25: the version extracted from an image reference is what follows its last
\* ':' cut at the first '@' after it, and empty when it has no ':'; so
\* nginx:1.21 gives 1.21, nginx gives the empty string, and nginx@sha256:abc123
\* and nginx:v1.0.0@sha256:abc123 both give abc123.
C25_ImageVersion ==
    (cret.returned /\ cret.err = NoErr) =>
        /\ IsVersionOf(CNIImage, CNIVersion)
        /\ CNIImage = "nginx:1.21" => CNIVersion = "1.21"
        /\ CNIImage = "nginx" => CNIVersion = ""
        /\ CNIImage = "nginx@sha256:abc123" => CNIVersion = "abc123"
        /\ CNIImage = "nginx:v1.0.0@sha256:abc123" => CNIVersion = "abc123"

C25_Witness ==
    /\ cret.returned /\ cret.err = NoErr
    /\ CNIImage = "nginx:v1.0.0@sha256:abc123"
    /\ Fields["cni-plugin"] = "cilium"
    /\ Fields["cni-version"] = "abc123"

\* the labels of the only node of the cluster
OnlyNodeLabels == cluster.nodes[1].labels

SELinuxLabel == "security.alpha.kubernetes.io/selinux"

\* C26: the SELinux status of a node is enabled exactly when its SELinux label
\* is present with the value enabled, disabled when the label is present with
\* any other value (permissive and the empty string included), and unknown
\* exactly when the label is absent.
C26_SELinuxStatus ==
    (cret.returned /\ cret.err = NoErr /\ Len(cluster.nodes) = 1) =>
        /\ Fields["selinux"] = "enabled" <=>
              (SELinuxLabel \in DOMAIN OnlyNodeLabels /\ OnlyNodeLabels[SELinuxLabel] = "enabled")
        /\ Fields["selinux"] = "disabled" <=>
              (SELinuxLabel \in DOMAIN OnlyNodeLabels /\ OnlyNodeLabels[SELinuxLabel] # "enabled")
        /\ Fields["selinux"] = "unknown" <=> SELinuxLabel \notin DOMAIN OnlyNodeLabels

C26_Witness ==
    /\ cret.returned /\ cret.err = NoErr
    /\ OnlyNodeLabels = (SELinuxLabel :> "")
    /\ Fields["selinux"] = "disabled"


----------------------------------------------------------------------------
(* Properties of run: the order of Collect and Send *)

CollectFailed == cret.returned /\ cret.err # NoErr

\* C27: in every run Collect is invoked at most once and Send at most once;
\* Send is invoked only after Collect has returned a fact-set without error;
\* when Collect fails, run returns an error and no HTTP request is ever made.
C27_CollectThenSendOnce ==
    /\ [](/\ calls.collect <= 1
          /\ calls.send <= 1
          /\ calls.send = 1 =>
                (calls.collect = 1 /\ cret.returned /\ cret.err = NoErr)
          /\ CollectFailed =>
                /\ calls.send = 0 /\ posts = 0 /\ outcomes = <<>>
                /\ pc \in {"run_collected", "done"}
                /\ pc = "done" =>
                      (runRet.returned /\ runRet.err = [kind |-> "collect data"]))
    /\ [][calls.send' # calls.send =>
            (calls.send = 0 /\ cret.returned /\ cret.err = NoErr /\ posts = 0)]_vars
    /\ [][CollectFailed => (CollectFailed' /\ posts' = 0)]_vars

C27_Witness ==
    /\ CollectFailed
    /\ calls = [collect |-> 1, send |-> 0]
    /\ runRet.returned /\ runRet.err = [kind |-> "collect data"]
    /\ posts = 0
    /\ failed = {"Nodes"}


\* the SELinux status of a node, read off its labels
SELinuxOf(node) ==
    IF SELinuxLabel \notin DOMAIN node.labels THEN "unknown"
    ELSE IF node.labels[SELinuxLabel] = "enabled" THEN "enabled" ELSE "disabled"

\* C28: for every node list, the empty one included, the selinux field of a
\* returned fact-set is one of enabled, disabled, unknown; for a non-empty
\* list it is the SELinux status of the first node.
C28_SELinuxOfFirstNode ==
    (cret.returned /\ cret.err = NoErr) =>
        /\ Fields["selinux"] \in {"enabled", "disabled", "unknown"}
        /\ cluster.nodes # <<>> => Fields["selinux"] = SELinuxOf(cluster.nodes[1])


----------------------------------------------------------------------------
(* Properties of Collect: failures inside ingress detection *)

\* C29: when the deployments of kube-system are listed without a match and the
\* listing of the daemon-sets then fails, the failure is swallowed: Collect
\* returns without error and ingress-controller is none, not unknown, whatever
\* the daemon-sets are; when the listing of the deployments fails,
\* ingress-controller is unknown and the daemon-sets are never listed.
C29_IngressListingFailures ==
    cret.returned =>
        /\ "Ingress/DaemonSets" \in failed =>
              /\ cret.err = NoErr
              /\ Answered("Ingress/Deployments")
              /\ FirstIngressOf(cluster.ksDeployments) = ""
              /\ Fields["ingress-controller"] = "none"
              /\ ~Has(Fields, "ingress-version")
        /\ "Ingress/Deployments" \in failed =>
              /\ cret.err = NoErr
              /\ "Ingress/DaemonSets" \notin Issued
              /\ Fields["ingress-controller"] = "unknown"
              /\ ~Has(Fields, "ingress-version")

C29_Witness ==
    /\ cret.returned /\ cret.err = NoErr
    /\ "Ingress/DaemonSets" \in failed
    /\ FirstIngressOf(cluster.ksDeployments) = ""
    /\ FirstIngressOf(cluster.ksDaemonSets) = "traefik"
    /\ Fields["ingress-controller"] = "none"


----------------------------------------------------------------------------
(* Properties of Send: the response *)

\* C30: Send never returns both a non-nil response and a non-nil error; it
\* returns a non-nil response only when an attempt received a 2xx status whose
\* body decoded as a Response, and the response then carries the versions and
\* the interval of that body.
C30_ResponseOrError ==
    sret.returned =>
        /\ ~(sret.resp.present /\ sret.err # NoErr)
        /\ sret.resp.present =>
              /\ outcomes # <<>>
              /\ Is2xx(LastOutcome)
              /\ LastOutcome.body.json
              /\ sret.resp.versions = LastOutcome.body.versions
              /\ sret.resp.interval = LastOutcome.body.interval
              /\ \A i \in 1..(Len(outcomes) - 1) : ~Is2xx(outcomes[i])

C30_Witness ==
    /\ sret.returned /\ sret.err = NoErr
    /\ sret.resp.present
    /\ Len(sret.resp.versions) = 1 /\ sret.resp.versions[1].name = "v1.30.1"
    /\ sret.resp.interval = 480
    /\ posts = 2 /\ ~Is2xx(outcomes[1])

====
